---- MODULE Spec2Model ----
(***************************************************************************)
(* SEEP (Socket Extensible Encryption Protocol): the Connection handshake  *)
(* with pre-handshake staging, the encrypted Reader/Writer stream and the  *)
(* net/rpc client/server codecs, between two ends "A" and "B" joined by    *)
(* one ordered frame transport per direction.                              *)
(*                                                                         *)
(* Byte strings are kept as sequences of segments [lo, hi]: the bytes      *)
(* number lo..hi of the stream the writing end has passed to Write, in the *)
(* order of the Write calls.  Adjacent segments are merged, so a byte      *)
(* string has one representation.                                          *)
(***************************************************************************)
EXTENDS Integers, Sequences, FiniteSets, TLC

\* ---- bounds of the model ------------------------------------------------
\* number of messages of the longest handshake pattern
MaxPattern == 3
\* Write / WriteRequest / WriteResponse calls after the handshakes, in total
MaxWrites == 2
\* Reader.Read calls after the handshakes, in total
MaxReads == 2
\* transport failures and tampered frames in one run
MaxFaults == 1
\* sizes of the one Write made before Handshake
SmallLen == 10
BigLen == 4097
HugeLen == 50000
\* len(p) of a Read with a short and with a long p
ShortLen == 4
LongLen == 65536

\* ---- program constants --------------------------------------------------
\* 0x1000, the staging threshold of Connection.Handshake
Threshold == 4096

End == {"A", "B"}
Peer(e) == IF e = "A" THEN "B" ELSE "A"
Thread == {"t1", "t2"}
NoThread == "none"

StageSizes == {SmallLen, BigLen, HugeLen}
WriteSizes == {0, SmallLen}
ReadSizes == {ShortLen, LongLen}
Bodies == {"x", "y"}

\* ---- bytes.Buffer over segments ----------------------------------------
Seg(lo, hi) == IF hi < lo THEN <<>> ELSE <<[lo |-> lo, hi |-> hi]>>

RECURSIVE BufLen(_)
BufLen(b) ==
  IF b = <<>> THEN 0 ELSE (b[1].hi - b[1].lo + 1) + BufLen(Tail(b))

\* Buffer.Write(p) / Buffer.ReadFrom(p): p is appended
BufWrite(b, p) ==
  IF p = <<>> THEN b
  ELSE IF b = <<>> THEN p
  ELSE IF b[Len(b)].hi + 1 = p[1].lo
       THEN SubSeq(b, 1, Len(b) - 1)
              \o <<[lo |-> b[Len(b)].lo, hi |-> p[1].hi]>> \o Tail(p)
       ELSE b \o p

RECURSIVE BufTake(_, _)
BufTake(b, n) ==
  IF n <= 0 \/ b = <<>> THEN <<>>
  ELSE IF b[1].hi - b[1].lo + 1 <= n
       THEN BufWrite(<<b[1]>>, BufTake(Tail(b), n - (b[1].hi - b[1].lo + 1)))
       ELSE <<[lo |-> b[1].lo, hi |-> b[1].lo + n - 1]>>

RECURSIVE BufDrop(_, _)
BufDrop(b, n) ==
  IF n <= 0 \/ b = <<>> THEN b
  ELSE IF b[1].hi - b[1].lo + 1 <= n
       THEN BufDrop(Tail(b), n - (b[1].hi - b[1].lo + 1))
       ELSE <<[lo |-> b[1].lo + n, hi |-> b[1].hi]>> \o Tail(b)

Min(a, b) == IF a < b THEN a ELSE b

\* Buffer.Next(n): the next min(n, Len) bytes, which leave the buffer
BufNext(b, n) ==
  [data |-> BufTake(b, Min(n, BufLen(b))), rest |-> BufDrop(b, Min(n, BufLen(b)))]

\* Buffer.Read(p) with len(p) = n: io.EOF from an empty buffer unless n = 0
BufRead(b, n) ==
  IF b = <<>>
  THEN [data |-> <<>>, rest |-> b, n |-> 0, err |-> IF n = 0 THEN "nil" ELSE "EOF"]
  ELSE [data |-> BufTake(b, Min(n, BufLen(b))),
        rest |-> BufDrop(b, Min(n, BufLen(b))),
        n |-> Min(n, BufLen(b)), err |-> "nil"]

\* a staging buffer pointer set to nil
NilBuf == <<[lo |-> 0, hi |-> 0]>>

\* ---- noise.CipherState --------------------------------------------------
\* key 0 is the nil *CipherState; cs1 has key 1, cs2 has key 2
NoCS == [key |-> 0, n |-> 0]
NewCS(k) == [key |-> k, n |-> 0]
NoFrame == [t |-> "none"]

\* CipherState.Encrypt: the ciphertext is bound to the key and the nonce, and
\* the nonce advances
Encrypt(cs, pt, call) ==
  [frame |-> [t |-> "ct", key |-> cs.key, n |-> cs.n, pt |-> pt,
              bad |-> FALSE, call |-> call],
   cs |-> [cs EXCEPT !.n = @ + 1]]

\* CipherState.Decrypt: authentication fails on another key, another nonce or
\* an altered ciphertext
DecryptOk(cs, f) ==
  f.t = "ct" /\ ~f.bad /\ f.key = cs.key /\ f.n = cs.n

Decrypt(cs, f) ==
  IF DecryptOk(cs, f)
  THEN [pt |-> f.pt, err |-> "nil", cs |-> [cs EXCEPT !.n = @ + 1]]
  ELSE [pt |-> <<>>, err |-> "decrypt", cs |-> cs]

\* ---- noise.HandshakeState -----------------------------------------------
NewHandshakeState == [idx |-> 0]

\* Split() at the last message of the pattern: (cs1, cs2) in this order, from
\* WriteMessage and from ReadMessage, at the initiator and at the responder
Split(idx, n) == IF idx = n THEN <<NewCS(1), NewCS(2)>> ELSE <<NoCS, NoCS>>

WriteMessage(h, n, payload) ==
  [msg |-> [t |-> "hs", idx |-> h.idx + 1, pt |-> payload, bad |-> FALSE],
   hs |-> [idx |-> h.idx + 1],
   cs |-> Split(h.idx + 1, n)]

ReadMessageOk(h, f) == f.t = "hs" /\ ~f.bad /\ f.idx = h.idx + 1

ReadMessage(h, n, f) ==
  IF ReadMessageOk(h, f)
  THEN [pt |-> f.pt, hs |-> [idx |-> h.idx + 1], cs |-> Split(h.idx + 1, n),
        err |-> "nil"]
  ELSE [pt |-> <<>>, hs |-> h, cs |-> <<NoCS, NoCS>>, err |-> "engine"]

\* ---- Connection.Handshake: the chunk of staged bytes per own message -----
\* nm: the messages of the pattern this end writes
OwnMessages(n, initiator) == (IF initiator THEN n + 1 ELSE n) \div 2

\* l/nm with nm = 0: integer division by zero, a run-time panic
ChunkPanics(len, n, initiator) ==
  len > Threshold /\ OwnMessages(n, initiator) = 0
    /\ OwnMessages(n, initiator) * Threshold < len

\* a chunk that rounds down
ChunkSizeFloor(len, n, initiator) ==
  IF len > Threshold
  THEN IF OwnMessages(n, initiator) * Threshold < len
       THEN len \div OwnMessages(n, initiator)
       ELSE Threshold
  ELSE len

ChunkSize(len, n, initiator) ==
  IF len > Threshold
  THEN IF OwnMessages(n, initiator) * Threshold < len
       THEN (len \div OwnMessages(n, initiator)) + 1
       ELSE Threshold
  ELSE len

\* a reading round that takes (i, o) in the order of a writing round
ConnReadAssignSwapped(cs) == [i |-> cs[2], o |-> cs[1]]

\* the cipher states a handshake round yields, as Connection.Handshake names them
ConnWriteAssign(cs) == [o |-> cs[1], i |-> cs[2]]
ConnReadAssign(cs) == [i |-> cs[1], o |-> cs[2]]

\* ... and as the codecs store them
ClientWriteAssign(cs) == [enc |-> cs[1], dec |-> cs[2]]
ClientReadAssign(cs) == [enc |-> cs[1], dec |-> cs[2]]
ServerWriteAssign(cs) == [dec |-> cs[1], enc |-> cs[2]]
ServerReadAssign(cs) == [dec |-> cs[1], enc |-> cs[2]]

VARIABLES
  cfg,      \* the run: kind of the two ends, noise.Config, serializer
  pc,       \* pc[e]: where the handshake of end e stands
  state,    \* state[e]: the handshake loop's turn flag
  l,        \* l[e]: the chunk size of Connection.Handshake
  outbuf,   \* c.outbuf
  inbuf,    \* c.inbuf
  hs,       \* the noise.HandshakeState
  loc,      \* the locals o and i of Connection.Handshake
  enc,      \* Writer.enc, rpcClientCodec.enc, rpcServerCodec.enc
  dec,      \* Reader.dec, rpcClientCodec.dec, rpcServerCodec.dec
  cw,       \* c.Writer: "outbuf" or "writer"
  cr,       \* c.Reader: "inbuf" or "reader"
  rbuf,     \* Reader.buf
  decode2,  \* r.decode2, the codec's pending body decoder (nil: not set)
  wire,     \* wire[e]: the frames e has sent, in order
  rpos,     \* rpos[e]: the frames of wire[Peer(e)] that e has received
  err,      \* what Handshake (the codec constructor) returned
  wlck,     \* Writer.lck, rpcClientCodec.wm, rpcServerCodec.rm
  rlck,     \* Reader.lck
  wt,       \* the writing calls in progress, per end and thread
  rt,       \* the reading calls in progress, per end and thread
  calls,    \* calls[e]: what was passed to the post-handshake writes, in call order
  got,      \* got[e]: what the reads of e have returned, in order
  written,  \* written[e]: bytes passed to c.Write so far
  staged,   \* staged[e]: the c.Write / c.Read calls served by the staging buffers
  nreads,   \* Reader.Read calls made so far
  conc,     \* the one object that thread "t2" calls in this run
  faults    \* transport failures and tamperings left

hvars == <<pc, state, l, outbuf, inbuf, hs, loc, err, cw, cr>>
cvars == <<enc, dec, rbuf, decode2>>
tvars == <<wire, rpos, faults>>
uvars == <<wlck, rlck, wt, rt, calls, got, written, staged, nreads, conc>>
vars == <<cfg, hvars, cvars, tvars, uvars>>

Initiator(e) == cfg.initiator = e
IsConn == cfg.kind = "conn"
IsRpc == cfg.kind = "rpc"

IdleW == [pc |-> "idle", frame |-> NoFrame, len |-> 0, n |-> 0, err |-> "nil"]
IdleR == [pc |-> "idle", frame |-> NoFrame, len |-> 0, n |-> 0, err |-> "nil"]
\* the objects a thread calls: the writing and the reading side of an end
WObj(e) == <<"w", e>>
RObj(e) == <<"r", e>>
NoObj == <<"none", "none">>

NoStaged == [pre |-> FALSE, lw |-> "none", lr |-> "none", lrn |-> 0]

\* The two ends of a Connection run the same code, so "A" names the initiator;
\* of the codecs "A" is the client and "B" the server, and either initiates.
Configs ==
  [kind : {"conn"}, n : 1..MaxPattern, initiator : {"A"}, binding : {"none"}]
  \cup
  [kind : {"rpc"}, n : 1..MaxPattern, initiator : End, binding : {"xdr", "gob"}]

\* Both ends constructed: Connection.Init() has run (new(rpcClientCodec) /
\* new(rpcServerCodec) with the serializer bound), no handshake started.
Init ==
  /\ cfg \in Configs
  /\ pc = [e \in End |-> "idle"]
  /\ state = [e \in End |-> FALSE]
  /\ l = [e \in End |-> 0]
  /\ outbuf = [e \in End |-> <<>>]
  /\ inbuf = [e \in End |-> <<>>]
  /\ hs = [e \in End |-> NewHandshakeState]
  /\ loc = [e \in End |-> [o |-> NoCS, i |-> NoCS]]
  /\ enc = [e \in End |-> NoCS]
  /\ dec = [e \in End |-> NoCS]
  /\ cw = [e \in End |-> "outbuf"]
  /\ cr = [e \in End |-> "inbuf"]
  /\ rbuf = [e \in End |-> <<>>]
  /\ decode2 = [e \in End |-> "nil"]
  /\ wire = [e \in End |-> <<>>]
  /\ rpos = [e \in End |-> 0]
  /\ err = [e \in End |-> "pending"]
  /\ wlck = [e \in End |-> NoThread]
  /\ rlck = [e \in End |-> NoThread]
  /\ wt = [e \in End |-> [t \in Thread |-> IdleW]]
  /\ rt = [e \in End |-> [t \in Thread |-> IdleR]]
  /\ calls = [e \in End |-> <<>>]
  /\ got = [e \in End |-> <<>>]
  /\ written = [e \in End |-> 0]
  /\ staged = [e \in End |-> NoStaged]
  /\ nreads = 0
  /\ conc = NoObj
  /\ faults = MaxFaults

\* ---- Connection: Write and Read served by the staging buffers -----------
\* c.Write(p) with len(p) = n while c.Writer is c.outbuf: once before
\* Handshake, at one end of the run, and once more after Handshake has returned
\* an error.
ConnWriteStaged(e, n) ==
  /\ IsConn /\ cw[e] = "outbuf"
  /\ \/ pc[e] = "idle" /\ ~staged[e].pre /\ ~staged[Peer(e)].pre
     \/ pc[e] = "failed" /\ staged[e].lw = "none" /\ n = SmallLen
  /\ outbuf' = [outbuf EXCEPT ![e] = BufWrite(@, Seg(written[e] + 1, written[e] + n))]
  /\ written' = [written EXCEPT ![e] = @ + n]
  /\ staged' = [staged EXCEPT ![e] =
                  IF pc[e] = "idle" THEN [@ EXCEPT !.pre = TRUE]
                  ELSE [@ EXCEPT !.lw = "ok"]]
  /\ UNCHANGED <<cfg, pc, state, l, inbuf, hs, loc, err, cw, cr, cvars, tvars,
                 wlck, rlck, wt, rt, calls, got, nreads, conc>>

\* c.Read(p) with len(p) = n while c.Reader is c.inbuf, after Handshake has
\* returned an error.
ConnReadStaged(e, n) ==
  /\ IsConn /\ cr[e] = "inbuf"
  /\ pc[e] = "failed" /\ staged[e].lr = "none"
  /\ LET rd == BufRead(inbuf[e], n) IN
       /\ inbuf' = [inbuf EXCEPT ![e] = rd.rest]
       /\ got' = [got EXCEPT ![e] = BufWrite(@, rd.data)]
       /\ staged' = [staged EXCEPT ![e] = [@ EXCEPT !.lr = rd.err, !.lrn = rd.n]]
  /\ UNCHANGED <<cfg, pc, state, l, outbuf, hs, loc, err, cw, cr, cvars, tvars,
                 wlck, rlck, wt, rt, calls, written, nreads, conc>>

\* ---- Connection.Handshake -----------------------------------------------
\* entry: the chunk size and the HandshakeState
HandshakeBegin(e) ==
  /\ IsConn /\ pc[e] = "idle"
  /\ IF ChunkPanics(BufLen(outbuf[e]), cfg.n, Initiator(e))
     THEN /\ pc' = [pc EXCEPT ![e] = "panic"]
          /\ UNCHANGED <<state, l, hs>>
     ELSE /\ pc' = [pc EXCEPT ![e] = "loop"]
          /\ state' = [state EXCEPT ![e] = Initiator(e)]
          /\ l' = [l EXCEPT ![e] = ChunkSize(BufLen(outbuf[e]), cfg.n, Initiator(e))]
          /\ hs' = [hs EXCEPT ![e] = NewHandshakeState]
  /\ UNCHANGED <<cfg, outbuf, inbuf, loc, err, cw, cr, cvars, tvars, uvars>>

\* a loop without the break at o != nil
AfterRoundLoop(o) == "loop"

\* where the loop goes after a round that left o
AfterRound(o) == IF o # NoCS THEN "install" ELSE "loop"

\* own turn: the next chunk leaves outbuf inside the handshake message
HandshakeWrite(e) ==
  /\ IsConn /\ pc[e] = "loop" /\ state[e]
  /\ LET nx == BufNext(outbuf[e], l[e])
         wm == WriteMessage(hs[e], cfg.n, nx.data)
     IN /\ outbuf' = [outbuf EXCEPT ![e] = nx.rest]
        /\ hs' = [hs EXCEPT ![e] = wm.hs]
        /\ loc' = [loc EXCEPT ![e] = ConnWriteAssign(wm.cs)]
        /\ wire' = [wire EXCEPT ![e] = Append(@, wm.msg)]
        /\ state' = [state EXCEPT ![e] = FALSE]
        /\ pc' = [pc EXCEPT ![e] = AfterRound(ConnWriteAssign(wm.cs).o)]
  /\ UNCHANGED <<cfg, l, inbuf, err, cw, cr, cvars, rpos, faults, uvars>>

\* own turn, dst.EncodeOpaque fails: return e
HandshakeWriteFail(e) ==
  /\ IsConn /\ pc[e] = "loop" /\ state[e]
  /\ faults > 0
  /\ LET nx == BufNext(outbuf[e], l[e])
         wm == WriteMessage(hs[e], cfg.n, nx.data)
     IN /\ outbuf' = [outbuf EXCEPT ![e] = nx.rest]
        /\ hs' = [hs EXCEPT ![e] = wm.hs]
        /\ loc' = [loc EXCEPT ![e] = ConnWriteAssign(wm.cs)]
  /\ faults' = faults - 1
  /\ pc' = [pc EXCEPT ![e] = "failed"]
  /\ err' = [err EXCEPT ![e] = "send"]
  /\ UNCHANGED <<cfg, state, l, inbuf, cw, cr, cvars, wire, rpos, uvars>>

\* the frame src.DecodeOpaque returns next at end e
HasFrame(e) == rpos[e] < Len(wire[Peer(e)])
NextFrame(e) == wire[Peer(e)][rpos[e] + 1]

\* peer's turn: the payload of the message goes to inbuf
HandshakeRead(e) ==
  /\ IsConn /\ pc[e] = "loop" /\ ~state[e]
  /\ HasFrame(e)
  /\ ReadMessageOk(hs[e], NextFrame(e))
  /\ LET rm == ReadMessage(hs[e], cfg.n, NextFrame(e))
     IN /\ hs' = [hs EXCEPT ![e] = rm.hs]
        /\ loc' = [loc EXCEPT ![e] = ConnReadAssign(rm.cs)]
        /\ inbuf' = [inbuf EXCEPT ![e] = BufWrite(@, rm.pt)]
        /\ pc' = [pc EXCEPT ![e] = AfterRound(ConnReadAssign(rm.cs).o)]
  /\ rpos' = [rpos EXCEPT ![e] = @ + 1]
  /\ state' = [state EXCEPT ![e] = TRUE]
  /\ UNCHANGED <<cfg, l, outbuf, err, cw, cr, cvars, wire, faults, uvars>>

\* peer's turn, hs.ReadMessage fails: return e
HandshakeReadReject(e) ==
  /\ IsConn /\ pc[e] = "loop" /\ ~state[e]
  /\ HasFrame(e)
  /\ ~ReadMessageOk(hs[e], NextFrame(e))
  /\ LET rm == ReadMessage(hs[e], cfg.n, NextFrame(e))
     IN /\ hs' = [hs EXCEPT ![e] = rm.hs]
        /\ loc' = [loc EXCEPT ![e] = ConnReadAssign(rm.cs)]
        /\ err' = [err EXCEPT ![e] = rm.err]
  /\ rpos' = [rpos EXCEPT ![e] = @ + 1]
  /\ pc' = [pc EXCEPT ![e] = "failed"]
  /\ UNCHANGED <<cfg, state, l, outbuf, inbuf, cw, cr, cvars, wire, faults, uvars>>

\* a loop that tries the receive again instead of returning
HandshakeRecvRetry(e) ==
  /\ IsConn /\ pc[e] = "loop" /\ ~state[e]
  /\ faults > 0
  /\ faults' = faults - 1
  /\ UNCHANGED <<cfg, hvars, cvars, wire, rpos, uvars>>

\* peer's turn, src.DecodeOpaque fails: return e
HandshakeRecvFail(e) ==
  /\ IsConn /\ pc[e] = "loop" /\ ~state[e]
  /\ faults > 0
  /\ faults' = faults - 1
  /\ pc' = [pc EXCEPT ![e] = "failed"]
  /\ err' = [err EXCEPT ![e] = "recv"]
  /\ UNCHANGED <<cfg, state, l, outbuf, inbuf, hs, loc, cw, cr, cvars, wire, rpos,
                 uvars>>

\* a Reader that starts empty
SeedReaderNone(inb) == <<>>

\* r.buf.ReadFrom(c.inbuf) on the new Reader's empty buffer
SeedReader(inb) == BufWrite(<<>>, inb)

\* after the loop: the Writer on o, the Reader on i seeded with inbuf, the
\* staging buffers dropped, return nil
HandshakeInstall(e) ==
  /\ IsConn /\ pc[e] = "install"
  /\ enc' = [enc EXCEPT ![e] = loc[e].o]
  /\ dec' = [dec EXCEPT ![e] = loc[e].i]
  /\ rbuf' = [rbuf EXCEPT ![e] = SeedReader(inbuf[e])]
  /\ cw' = [cw EXCEPT ![e] = "writer"]
  /\ cr' = [cr EXCEPT ![e] = "reader"]
  /\ inbuf' = [inbuf EXCEPT ![e] = NilBuf]
  /\ outbuf' = [outbuf EXCEPT ![e] = NilBuf]
  /\ err' = [err EXCEPT ![e] = "nil"]
  /\ pc' = [pc EXCEPT ![e] = "done"]
  /\ UNCHANGED <<cfg, state, l, hs, loc, decode2, tvars, uvars>>

\* ---- the transport's faults ---------------------------------------------
\* the frame that end e receives next is altered in transit
Tamper(e) ==
  /\ faults > 0
  /\ HasFrame(e)
  /\ ~NextFrame(e).bad
  /\ wire' = [wire EXCEPT ![Peer(e)][rpos[e] + 1].bad = TRUE]
  /\ faults' = faults - 1
  /\ UNCHANGED <<cfg, hvars, cvars, rpos, uvars>>

\* ---- the codecs' handshake (rpcClientCodec at "A", rpcServerCodec at "B") -
IsClient(e) == e = "A"
CodecWriteAssign(e, cs) ==
  IF IsClient(e) THEN ClientWriteAssign(cs) ELSE ServerWriteAssign(cs)
CodecReadAssign(e, cs) ==
  IF IsClient(e) THEN ClientReadAssign(cs) ELSE ServerReadAssign(cs)

\* where the codec's loop goes after a round that left r.enc
CodecAfterRound(c) == IF c # NoCS THEN "done" ELSE "loop"
CodecReturn(c, was) == IF c # NoCS THEN "nil" ELSE was

CodecHandshakeBegin(e) ==
  /\ IsRpc /\ pc[e] = "idle"
  /\ pc' = [pc EXCEPT ![e] = "loop"]
  /\ state' = [state EXCEPT ![e] = Initiator(e)]
  /\ hs' = [hs EXCEPT ![e] = NewHandshakeState]
  /\ UNCHANGED <<cfg, l, outbuf, inbuf, loc, err, cw, cr, cvars, tvars, uvars>>

CodecHandshakeWrite(e) ==
  /\ IsRpc /\ pc[e] = "loop" /\ state[e]
  /\ LET wm == WriteMessage(hs[e], cfg.n, <<>>)
         a == CodecWriteAssign(e, wm.cs)
     IN /\ hs' = [hs EXCEPT ![e] = wm.hs]
        /\ enc' = [enc EXCEPT ![e] = a.enc]
        /\ dec' = [dec EXCEPT ![e] = a.dec]
        /\ wire' = [wire EXCEPT ![e] = Append(@, wm.msg)]
        /\ pc' = [pc EXCEPT ![e] = CodecAfterRound(a.enc)]
        /\ err' = [err EXCEPT ![e] = CodecReturn(a.enc, @)]
  /\ state' = [state EXCEPT ![e] = FALSE]
  /\ UNCHANGED <<cfg, l, outbuf, inbuf, loc, cw, cr, rbuf, decode2, rpos, faults,
                 uvars>>

CodecHandshakeWriteFail(e) ==
  /\ IsRpc /\ pc[e] = "loop" /\ state[e]
  /\ faults > 0
  /\ LET wm == WriteMessage(hs[e], cfg.n, <<>>)
         a == CodecWriteAssign(e, wm.cs)
     IN /\ hs' = [hs EXCEPT ![e] = wm.hs]
        /\ enc' = [enc EXCEPT ![e] = a.enc]
        /\ dec' = [dec EXCEPT ![e] = a.dec]
  /\ faults' = faults - 1
  /\ pc' = [pc EXCEPT ![e] = "failed"]
  /\ err' = [err EXCEPT ![e] = "send"]
  /\ UNCHANGED <<cfg, state, l, outbuf, inbuf, loc, cw, cr, rbuf, decode2, wire,
                 rpos, uvars>>

CodecHandshakeRead(e) ==
  /\ IsRpc /\ pc[e] = "loop" /\ ~state[e]
  /\ HasFrame(e)
  /\ ReadMessageOk(hs[e], NextFrame(e))
  /\ LET rm == ReadMessage(hs[e], cfg.n, NextFrame(e))
         a == CodecReadAssign(e, rm.cs)
     IN /\ hs' = [hs EXCEPT ![e] = rm.hs]
        /\ enc' = [enc EXCEPT ![e] = a.enc]
        /\ dec' = [dec EXCEPT ![e] = a.dec]
        /\ pc' = [pc EXCEPT ![e] = CodecAfterRound(a.enc)]
        /\ err' = [err EXCEPT ![e] = CodecReturn(a.enc, @)]
  /\ rpos' = [rpos EXCEPT ![e] = @ + 1]
  /\ state' = [state EXCEPT ![e] = TRUE]
  /\ UNCHANGED <<cfg, l, outbuf, inbuf, loc, cw, cr, rbuf, decode2, wire, faults,
                 uvars>>

CodecHandshakeReadReject(e) ==
  /\ IsRpc /\ pc[e] = "loop" /\ ~state[e]
  /\ HasFrame(e)
  /\ ~ReadMessageOk(hs[e], NextFrame(e))
  /\ LET rm == ReadMessage(hs[e], cfg.n, NextFrame(e))
         a == CodecReadAssign(e, rm.cs)
     IN /\ hs' = [hs EXCEPT ![e] = rm.hs]
        /\ enc' = [enc EXCEPT ![e] = a.enc]
        /\ dec' = [dec EXCEPT ![e] = a.dec]
        /\ err' = [err EXCEPT ![e] = rm.err]
  /\ rpos' = [rpos EXCEPT ![e] = @ + 1]
  /\ pc' = [pc EXCEPT ![e] = "failed"]
  /\ UNCHANGED <<cfg, state, l, outbuf, inbuf, loc, cw, cr, rbuf, decode2, wire,
                 faults, uvars>>

CodecHandshakeRecvFail(e) ==
  /\ IsRpc /\ pc[e] = "loop" /\ ~state[e]
  /\ faults > 0
  /\ faults' = faults - 1
  /\ pc' = [pc EXCEPT ![e] = "failed"]
  /\ err' = [err EXCEPT ![e] = "recv"]
  /\ UNCHANGED <<cfg, state, l, outbuf, inbuf, hs, loc, cw, cr, cvars, wire, rpos,
                 uvars>>

\* ---- NewRpcClient / NewRpcSource / NewGobRpcClient / NewGobRpcSource ------
\* err := r.handshake(src,dst,nc); return r,err: the caller has the codec r
\* once the handshake has returned, with nil or with an error
CodecHanded(e) == IsRpc /\ pc[e] \in {"done", "failed"}

\* WriteRequest (WriteResponse) on a codec that was returned with r.enc nil:
\* r.enc.Encrypt on the nil *CipherState is a nil pointer dereference
CodecWriteUnkeyed(e) ==
  /\ CodecHanded(e) /\ pc[e] = "failed"
  /\ enc[e] = NoCS
  /\ staged[e].lw = "none"
  /\ staged' = [staged EXCEPT ![e] = [@ EXCEPT !.lw = "panic"]]
  /\ UNCHANGED <<cfg, hvars, cvars, tvars, wlck, rlck, wt, rt, calls, got, written,
                 nreads, conc>>

\* ---- the serializers (xdrEncReq .. gobDecResp) ---------------------------
\* rpc.Request has ServiceMethod and Seq, rpc.Response has Error as well
HeaderOf(e, k) == [ServiceMethod |-> "Svc.Method", Seq |-> k]

\* enc.Encode(r): the header's fields (xdr), or its type and its value (gob)
EncodeHeader(b, e, hdr) ==
  IF b = "xdr"
  THEN <<[t |-> "xdr.string", v |-> hdr.ServiceMethod],
         [t |-> "xdr.uhyper", v |-> ToString(hdr.Seq)]>>
       \o (IF IsClient(e) THEN <<>> ELSE <<[t |-> "xdr.string", v |-> ""]>>)
  ELSE <<[t |-> "gob.type", v |-> IF IsClient(e) THEN "Request" ELSE "Response"],
         [t |-> "gob.value", v |-> hdr.ServiceMethod \o "#" \o ToString(hdr.Seq)]>>

\* enc.Encode(i)
EncodeBody(b, body) ==
  IF b = "xdr" THEN <<[t |-> "xdr.opaque", v |-> body]>>
  ELSE <<[t |-> "gob.value", v |-> body]>>

\* xdrEncReq / xdrEncResp / gobEncReq / gobEncResp: header, then body, in one buffer
Encode(b, e, hdr, body) == EncodeHeader(b, e, hdr) \o EncodeBody(b, body)

\* ---- the callers ---------------------------------------------------------
\* After the handshakes one end of the run writes: of two Connections the
\* initiator "A", whose Writer has cs1 after a pattern of odd length and cs2
\* after one of even length; of two codecs the first that does.  Both ends read.  Thread "t1" calls every object; thread "t2" calls one object of
\* the run, the first it calls: the Writer (the writing side of the codec) or
\* the Reader (the reading side of the codec) of one end, and it calls while a
\* call of "t1" on that object is in progress.
Busy(th) == th["t1"].pc # "idle"
CanCall(t, obj, th) == t = "t1" \/ (conc \in {NoObj, obj} /\ Busy(th))
Claim(t, obj) == IF t = "t2" THEN obj ELSE conc
CanWrite(e) == IF IsConn THEN Initiator(e) ELSE calls[Peer(e)] = <<>>

\* ---- Writer.Write ---------------------------------------------------------
TotalWrites == Len(calls["A"]) + Len(calls["B"])
LockFree(lck) == lck = NoThread

\* a Write that waits for the Reader's lock as well
WriterWriteSharedLock(e, t, n) ==
  /\ IsConn /\ cw[e] = "writer"
  /\ wt[e][t].pc = "idle"
  /\ CanCall(t, WObj(e), wt[e])
  /\ CanWrite(e)
  /\ TotalWrites < MaxWrites
  /\ LockFree(wlck[e]) /\ LockFree(rlck[e])
  /\ LET p == Seg(written[e] + 1, written[e] + n)
         ct == Encrypt(enc[e], p, Len(calls[e]) + 1)
     IN /\ enc' = [enc EXCEPT ![e] = ct.cs]
        /\ wt' = [wt EXCEPT ![e][t] =
                    [pc |-> "send", frame |-> ct.frame, len |-> n, n |-> 0, err |-> "nil"]]
        /\ calls' = [calls EXCEPT ![e] = Append(@, p)]
  /\ written' = [written EXCEPT ![e] = @ + n]
  /\ wlck' = [wlck EXCEPT ![e] = t]
  /\ conc' = Claim(t, WObj(e))
  /\ UNCHANGED <<cfg, hvars, dec, rbuf, decode2, tvars, rlck, rt, got, staged,
                 nreads>>

\* w.lck.Lock(); buf := w.enc.Encrypt(nil,nil,p), with len(p) = n
WriterWriteLock(e, t, n) ==
  /\ IsConn /\ cw[e] = "writer"
  /\ wt[e][t].pc = "idle"
  /\ CanCall(t, WObj(e), wt[e])
  /\ CanWrite(e)
  /\ TotalWrites < MaxWrites
  /\ LockFree(wlck[e])
  /\ LET p == Seg(written[e] + 1, written[e] + n)
         ct == Encrypt(enc[e], p, Len(calls[e]) + 1)
     IN /\ enc' = [enc EXCEPT ![e] = ct.cs]
        /\ wt' = [wt EXCEPT ![e][t] =
                    [pc |-> "send", frame |-> ct.frame, len |-> n, n |-> 0, err |-> "nil"]]
        /\ calls' = [calls EXCEPT ![e] = Append(@, p)]
  /\ written' = [written EXCEPT ![e] = @ + n]
  /\ wlck' = [wlck EXCEPT ![e] = t]
  /\ conc' = Claim(t, WObj(e))
  /\ UNCHANGED <<cfg, hvars, dec, rbuf, decode2, tvars, rlck, rt, got, staged,
                 nreads>>

\* _,e := w.dst.EncodeOpaque(buf); n = len(p); return, the lock released
WriterWriteSend(e, t) ==
  /\ IsConn /\ wt[e][t].pc = "send"
  /\ wire' = [wire EXCEPT ![e] = Append(@, wt[e][t].frame)]
  /\ wt' = [wt EXCEPT ![e][t] =
              [pc |-> "ret", frame |-> NoFrame, len |-> @.len, n |-> @.len,
               err |-> "nil"]]
  /\ wlck' = [wlck EXCEPT ![e] = NoThread]
  /\ UNCHANGED <<cfg, hvars, cvars, rpos, faults, rlck, rt, calls, got, written,
                 staged, nreads, conc>>

\* w.dst.EncodeOpaque(buf) fails: err = e, n stays 0; return, the lock released
WriterWriteSendFail(e, t) ==
  /\ IsConn /\ wt[e][t].pc = "send"
  /\ faults > 0
  /\ faults' = faults - 1
  /\ wt' = [wt EXCEPT ![e][t] =
              [pc |-> "ret", frame |-> NoFrame, len |-> @.len, n |-> 0,
               err |-> "send"]]
  /\ wlck' = [wlck EXCEPT ![e] = NoThread]
  /\ UNCHANGED <<cfg, hvars, cvars, wire, rpos, rlck, rt, calls, got, written,
                 staged, nreads, conc>>

\* the caller of a write has its result
WriteReturn(e, t) ==
  /\ wt[e][t].pc = "ret"
  /\ wt' = [wt EXCEPT ![e][t] = IdleW]
  /\ UNCHANGED <<cfg, hvars, cvars, tvars, wlck, rlck, rt, calls, got, written,
                 staged, nreads, conc>>

\* ---- Reader.Read ----------------------------------------------------------
\* a Read that forgets what p could not hold
ServeReadDropRest(buf, n) == [BufRead(buf, n) EXCEPT !.rest = <<>>]

\* return r.buf.Read(p), with len(p) = n: what is not served stays in r.buf
ServeRead(buf, n) == BufRead(buf, n)

\* r.lck.Lock(); r.buf.Len() != 0: return r.buf.Read(p), with len(p) = n
ReaderReadBuffered(e, t, n) ==
  /\ IsConn /\ cr[e] = "reader"
  /\ rt[e][t].pc = "idle"
  /\ CanCall(t, RObj(e), rt[e])
  /\ nreads < MaxReads
  /\ LockFree(rlck[e])
  /\ rbuf[e] # <<>>
  /\ LET rd == ServeRead(rbuf[e], n)
     IN /\ rbuf' = [rbuf EXCEPT ![e] = rd.rest]
        /\ got' = [got EXCEPT ![e] = BufWrite(@, rd.data)]
        /\ rt' = [rt EXCEPT ![e][t] =
                    [@ EXCEPT !.pc = "ret", !.len = n, !.n = rd.n, !.err = rd.err]]
  /\ nreads' = nreads + 1
  /\ conc' = Claim(t, RObj(e))
  /\ UNCHANGED <<cfg, hvars, enc, dec, decode2, tvars, wlck, rlck, wt, calls,
                 written, staged>>

\* a Read that goes on to r.src.DecodeOpaque() without the lock
ReaderReadNoLock(e, t) ==
  /\ IsConn /\ cr[e] = "reader"
  /\ rt[e][t].pc = "idle"
  /\ CanCall(t, RObj(e), rt[e])
  /\ nreads < MaxReads
  /\ rbuf[e] = <<>>
  /\ rt' = [rt EXCEPT ![e][t] = [@ EXCEPT !.pc = "recv"]]
  /\ nreads' = nreads + 1
  /\ conc' = Claim(t, RObj(e))
  /\ UNCHANGED <<cfg, hvars, cvars, tvars, wlck, rlck, wt, calls, got, written,
                 staged>>

\* a Read that goes on to r.src.DecodeOpaque() whatever r.buf holds
ReaderReadAlwaysFetch(e, t) ==
  /\ IsConn /\ cr[e] = "reader"
  /\ rt[e][t].pc = "idle"
  /\ CanCall(t, RObj(e), rt[e])
  /\ nreads < MaxReads
  /\ LockFree(rlck[e])
  /\ rt' = [rt EXCEPT ![e][t] = [@ EXCEPT !.pc = "recv"]]
  /\ rlck' = [rlck EXCEPT ![e] = t]
  /\ nreads' = nreads + 1
  /\ conc' = Claim(t, RObj(e))
  /\ UNCHANGED <<cfg, hvars, cvars, tvars, wlck, wt, calls, got, written, staged>>

\* r.lck.Lock(); r.buf.Len() == 0: on to r.src.DecodeOpaque()
ReaderReadLock(e, t) ==
  /\ IsConn /\ cr[e] = "reader"
  /\ rt[e][t].pc = "idle"
  /\ CanCall(t, RObj(e), rt[e])
  /\ nreads < MaxReads
  /\ LockFree(rlck[e])
  /\ rbuf[e] = <<>>
  /\ rt' = [rt EXCEPT ![e][t] = [@ EXCEPT !.pc = "recv"]]
  /\ rlck' = [rlck EXCEPT ![e] = t]
  /\ nreads' = nreads + 1
  /\ conc' = Claim(t, RObj(e))
  /\ UNCHANGED <<cfg, hvars, cvars, tvars, wlck, wt, calls, got, written, staged>>

\* buf,_,e := r.src.DecodeOpaque() returns the next frame
ReaderReadRecv(e, t) ==
  /\ IsConn /\ rt[e][t].pc = "recv"
  /\ HasFrame(e)
  /\ rt' = [rt EXCEPT ![e][t] = [@ EXCEPT !.pc = "dec", !.frame = NextFrame(e)]]
  /\ rpos' = [rpos EXCEPT ![e] = @ + 1]
  /\ UNCHANGED <<cfg, hvars, cvars, wire, faults, wlck, rlck, wt, calls, got,
                 written, staged, nreads, conc>>

\* r.src.DecodeOpaque() fails: err = e; return, the lock released
ReaderReadRecvFail(e, t) ==
  /\ IsConn /\ rt[e][t].pc = "recv"
  /\ faults > 0
  /\ faults' = faults - 1
  /\ rt' = [rt EXCEPT ![e][t] = [@ EXCEPT !.pc = "ret", !.n = 0, !.err = "recv"]]
  /\ rlck' = [rlck EXCEPT ![e] = NoThread]
  /\ UNCHANGED <<cfg, hvars, cvars, wire, rpos, wlck, wt, calls, got, written,
                 staged, nreads, conc>>

\* r.dec.Decrypt succeeds: r.buf.Write(buf); return r.buf.Read(p), with
\* len(p) = n, the lock released
ReaderReadDecrypt(e, t, n) ==
  /\ IsConn /\ rt[e][t].pc = "dec"
  /\ DecryptOk(dec[e], rt[e][t].frame)
  /\ LET d == Decrypt(dec[e], rt[e][t].frame)
         rd == ServeRead(BufWrite(rbuf[e], d.pt), n)
     IN /\ dec' = [dec EXCEPT ![e] = d.cs]
        /\ rbuf' = [rbuf EXCEPT ![e] = rd.rest]
        /\ got' = [got EXCEPT ![e] = BufWrite(@, rd.data)]
        /\ rt' = [rt EXCEPT ![e][t] = [@ EXCEPT !.pc = "ret", !.frame = NoFrame,
                                                  !.len = n, !.n = rd.n,
                                                  !.err = rd.err]]
  /\ rlck' = [rlck EXCEPT ![e] = NoThread]
  /\ UNCHANGED <<cfg, hvars, enc, decode2, tvars, wlck, wt, calls, written, staged,
                 nreads, conc>>

\* r.dec.Decrypt fails: err = e; return, the lock released
ReaderReadDecryptFail(e, t) ==
  /\ IsConn /\ rt[e][t].pc = "dec"
  /\ ~DecryptOk(dec[e], rt[e][t].frame)
  /\ LET d == Decrypt(dec[e], rt[e][t].frame)
     IN /\ dec' = [dec EXCEPT ![e] = d.cs]
        /\ rt' = [rt EXCEPT ![e][t] = [@ EXCEPT !.pc = "ret", !.frame = NoFrame,
                                                  !.n = 0, !.err = d.err]]
  /\ rlck' = [rlck EXCEPT ![e] = NoThread]
  /\ UNCHANGED <<cfg, hvars, enc, rbuf, decode2, tvars, wlck, wt, calls, got,
                 written, staged, nreads, conc>>

\* the caller of a read has its result
ReadReturn(e, t) ==
  /\ rt[e][t].pc = "ret"
  /\ rt' = [rt EXCEPT ![e][t] = IdleR]
  /\ UNCHANGED <<cfg, hvars, cvars, tvars, wlck, rlck, wt, calls, got, written,
                 staged, nreads, conc>>

\* ---- rpcClientCodec.WriteRequest / rpcServerCodec.WriteResponse -----------
\* r.wm.Lock() (r.rm.Lock()); buf := r.encode(..); buf = r.enc.Encrypt(nil,nil,buf)
CodecWriteLock(e, t, body) ==
  /\ IsRpc /\ pc[e] = "done"
  /\ wt[e][t].pc = "idle"
  /\ CanCall(t, WObj(e), wt[e])
  /\ CanWrite(e)
  /\ TotalWrites < MaxWrites
  /\ LockFree(wlck[e])
  /\ LET hdr == HeaderOf(e, Len(calls[e]) + 1)
         ct == Encrypt(enc[e], Encode(cfg.binding, e, hdr, body), Len(calls[e]) + 1)
     IN /\ enc' = [enc EXCEPT ![e] = ct.cs]
        /\ wt' = [wt EXCEPT ![e][t] =
                    [pc |-> "send", frame |-> ct.frame, len |-> 0, n |-> 0, err |-> "nil"]]
        /\ calls' = [calls EXCEPT ![e] = Append(@, [hdr |-> hdr, body |-> body])]
  /\ wlck' = [wlck EXCEPT ![e] = t]
  /\ conc' = Claim(t, WObj(e))
  /\ UNCHANGED <<cfg, hvars, dec, rbuf, decode2, tvars, rlck, rt, got, written,
                 staged, nreads>>

\* _,err = r.dst.EncodeOpaque(buf): no constructor assigns r.dst, the call on
\* the nil *xdr.Encoder is a nil pointer dereference; the deferred Unlock runs
\* and no frame leaves
CodecWriteSend(e, t) ==
  /\ IsRpc /\ wt[e][t].pc = "send"
  /\ wt' = [wt EXCEPT ![e][t] = [@ EXCEPT !.pc = "panic", !.frame = NoFrame,
                                            !.err = "nil dst"]]
  /\ wlck' = [wlck EXCEPT ![e] = NoThread]
  /\ UNCHANGED <<cfg, hvars, cvars, tvars, rlck, rt, calls, got, written,
                 staged, nreads, conc>>

\* ---- rpcClientCodec.ReadResponseHeader / rpcServerCodec.ReadRequestHeader -
\* the call is entered; no lock is taken
CodecReadEnter(e, t) ==
  /\ IsRpc /\ pc[e] = "done"
  /\ rt[e][t].pc = "idle"
  /\ CanCall(t, RObj(e), rt[e])
  /\ rt' = [rt EXCEPT ![e][t] = [@ EXCEPT !.pc = "recv"]]
  /\ conc' = Claim(t, RObj(e))
  /\ UNCHANGED <<cfg, hvars, cvars, tvars, wlck, rlck, wt, calls, got, written,
                 staged, nreads>>

\* buf,_,err := r.src.DecodeOpaque(): no constructor assigns r.src, the call
\* on the nil *xdr.Decoder is a nil pointer dereference; nothing is received
CodecReadRecv(e, t) ==
  /\ IsRpc /\ rt[e][t].pc = "recv"
  /\ rt' = [rt EXCEPT ![e][t] = [@ EXCEPT !.pc = "panic", !.err = "nil src"]]
  /\ UNCHANGED <<cfg, hvars, cvars, tvars, wlck, rlck, wt, calls, got, written,
                 staged, nreads, conc>>

\* ---- rpcClientCodec.ReadResponseBody / rpcServerCodec.ReadRequestBody -----
\* return r.decode2(i): r.decode2 is assigned by a header read that got to its
\* end, which none does; the call of the nil func value panics
CodecReadBody(e, t) ==
  /\ IsRpc /\ pc[e] = "done"
  /\ rt[e][t].pc = "idle"
  /\ CanCall(t, RObj(e), rt[e])
  /\ decode2[e] = "nil"
  /\ rt' = [rt EXCEPT ![e][t] = [@ EXCEPT !.pc = "panic", !.err = "nil decode2"]]
  /\ conc' = Claim(t, RObj(e))
  /\ UNCHANGED <<cfg, hvars, cvars, tvars, wlck, rlck, wt, calls, got, written,
                 staged, nreads>>

\* a frame of the encrypted stream is altered in transit to end e
StreamTamper(e) == Tamper(e) /\ NextFrame(e).t = "ct"

\* the steps of the handshakes and of the staging calls
HandshakeNext ==
  \/ \E e \in End, n \in StageSizes : ConnWriteStaged(e, n)
  \/ \E e \in End : HandshakeBegin(e)
  \/ \E e \in End : HandshakeWrite(e)
  \/ \E e \in End : HandshakeRead(e)
  \/ \E e \in End : HandshakeInstall(e)
  \/ \E e \in End : CodecHandshakeBegin(e)
  \/ \E e \in End : CodecHandshakeWrite(e)
  \/ \E e \in End : CodecHandshakeRead(e)

\* a failing transport or an altered frame during the handshakes, and what
\* the callers do with a Connection whose Handshake has failed
HandshakeFaultNext ==
  \/ \E e \in End : Tamper(e)
  \/ \E e \in End : HandshakeWriteFail(e)
  \/ \E e \in End : HandshakeReadReject(e)
  \/ \E e \in End : HandshakeRecvFail(e)
  \/ \E e \in End : CodecHandshakeWriteFail(e)
  \/ \E e \in End : CodecHandshakeReadReject(e)
  \/ \E e \in End : CodecHandshakeRecvFail(e)
  \/ \E e \in End, n \in ReadSizes : ConnReadStaged(e, n)
  \/ \E e \in End : CodecWriteUnkeyed(e)

\* the calls on the encrypted stream and on the codecs
StreamNext ==
  \/ \E e \in End, t \in Thread, n \in WriteSizes : WriterWriteLock(e, t, n)
  \/ \E e \in End, t \in Thread : WriterWriteSend(e, t)
  \/ \E e \in End, t \in Thread : WriteReturn(e, t)
  \/ \E e \in End, t \in Thread, n \in ReadSizes : ReaderReadBuffered(e, t, n)
  \/ \E e \in End, t \in Thread : ReaderReadLock(e, t)
  \/ \E e \in End, t \in Thread : ReaderReadRecv(e, t)
  \/ \E e \in End, t \in Thread, n \in ReadSizes : ReaderReadDecrypt(e, t, n)
  \/ \E e \in End, t \in Thread : ReadReturn(e, t)
  \/ \E e \in End, t \in Thread, v \in Bodies : CodecWriteLock(e, t, v)
  \/ \E e \in End, t \in Thread : CodecWriteSend(e, t)
  \/ \E e \in End, t \in Thread : CodecReadEnter(e, t)
  \/ \E e \in End, t \in Thread : CodecReadRecv(e, t)
  \/ \E e \in End, t \in Thread : CodecReadBody(e, t)

\* a failing transport under the stream (the codecs do not get to theirs)
StreamFaultNext ==
  \/ \E e \in End, t \in Thread : WriterWriteSendFail(e, t)
  \/ \E e \in End, t \in Thread : ReaderReadRecvFail(e, t)
  \/ \E e \in End, t \in Thread : ReaderReadDecryptFail(e, t)

Next == HandshakeNext \/ HandshakeFaultNext \/ StreamNext \/ StreamFaultNext

\* the whole system
Spec == Init /\ [][Next]_vars

\* the handshakes alone, over a transport that may fail
HsNext == HandshakeNext \/ HandshakeFaultNext
HsSpec == Init /\ [][HsNext]_vars

\* the whole system over a transport that neither fails nor alters a frame
ReliableNext == HandshakeNext \/ StreamNext
ReliableSpec == Init /\ [][ReliableNext]_vars

\* one goroutine calls the stream and the codecs, over a transport that may
\* fail or alter a frame once the handshakes are through
SeqStreamNext ==
  \/ \E e \in End, n \in WriteSizes : WriterWriteLock(e, "t1", n)
  \/ \E e \in End : WriterWriteSend(e, "t1")
  \/ \E e \in End : WriteReturn(e, "t1")
  \/ \E e \in End, n \in ReadSizes : ReaderReadBuffered(e, "t1", n)
  \/ \E e \in End : ReaderReadLock(e, "t1")
  \/ \E e \in End : ReaderReadRecv(e, "t1")
  \/ \E e \in End, n \in ReadSizes : ReaderReadDecrypt(e, "t1", n)
  \/ \E e \in End : ReadReturn(e, "t1")
  \/ \E e \in End, v \in Bodies : CodecWriteLock(e, "t1", v)
  \/ \E e \in End : CodecWriteSend(e, "t1")
  \/ \E e \in End : CodecReadEnter(e, "t1")
  \/ \E e \in End : CodecReadRecv(e, "t1")
  \/ \E e \in End : CodecReadBody(e, "t1")
SeqFaultNext ==
  \/ \E e \in End : StreamTamper(e)
  \/ \E e \in End : WriterWriteSendFail(e, "t1")
  \/ \E e \in End : ReaderReadRecvFail(e, "t1")
  \/ \E e \in End : ReaderReadDecryptFail(e, "t1")
FaultNext == HandshakeNext \/ SeqStreamNext \/ SeqFaultNext
FaultSpec == Init /\ [][FaultNext]_vars

\* the handshakes over such a transport, each Handshake call being a running
\* goroutine: the step it can take, it takes
HandshakeStep(e) ==
  \/ HandshakeBegin(e) \/ HandshakeWrite(e) \/ HandshakeRead(e) \/ HandshakeInstall(e)
  \/ CodecHandshakeBegin(e) \/ CodecHandshakeWrite(e) \/ CodecHandshakeRead(e)
LiveSpec ==
  Init /\ [][HandshakeNext]_vars /\ \A e \in End : WF_vars(HandshakeStep(e))

\* ==== properties ==========================================================
\* ---- what the properties read off the state ------------------------------
IsHs(f) == f.t = "hs"
IsData(f) == f.t = "ct"

\* the plaintexts of a sequence of frames, one after the other
RECURSIVE PlainOf(_)
PlainOf(fs) == IF fs = <<>> THEN <<>> ELSE BufWrite(fs[1].pt, PlainOf(Tail(fs)))

\* the byte strings of a sequence of Write calls, one after the other
RECURSIVE Concat(_)
Concat(ps) == IF ps = <<>> THEN <<>> ELSE BufWrite(ps[1], Concat(Tail(ps)))

IsPrefix(a, b) == BufTake(b, BufLen(a)) = a

\* the handshake frames and the stream frames end e has sent
HsFrames(e) == SelectSeq(wire[e], IsHs)
DataFrames(e) == SelectSeq(wire[e], IsData)

\* the frames end e holds between receive and decrypt
Held(e) == {t \in Thread : rt[e][t].pc = "dec"}
\* the frames end e has taken off the transport and processed
Consumed(e) == SubSeq(wire[Peer(e)], 1, rpos[e] - Cardinality(Held(e)))

\* the bytes end e passed to Write before Handshake (no Write after a failure)
PreLen(e) == written[e] - BufLen(Concat(calls[e]))

\* the threads inside the encrypt/send and the receive/decrypt steps of end e
InWrite(e) == {t \in Thread : wt[e][t].pc = "send"}
InRead(e) == {t \in Thread : rt[e][t].pc \in {"recv", "dec"}}

BothDone == \A e \in End : pc[e] = "done"

\* ---- C1 -------------------------------------------------------------------
\* C1: over a transport that neither fails nor alters a frame, with both
\* Handshake calls running, both eventually return nil, each having processed
\* message number N, with exactly N handshake frames sent in total.
C1_BothReturnNil ==
  <>[](\A e \in End : /\ err[e] = "nil"
                      /\ hs[e].idx = cfg.n
                      /\ Len(wire["A"]) + Len(wire["B"]) = cfg.n)

\* Where no end divides by zero in the chunk computation the handshakes do
\* end this way: in every behaviour an end panics or both return nil as above.
BothReturnNilUnlessPanic ==
  (<>(\E e \in End : pc[e] = "panic")) \/ C1_BothReturnNil

\* ---- C2 -------------------------------------------------------------------
\* C2: once both ends of a Connection have completed the handshake, the cipher
\* state of each end's Writer is the cipher state of the other end's Reader,
\* it is one of cs1 and cs2, and the two directions have different ones.
C2_CipherPairing ==
  (IsConn /\ BothDone) =>
     \A e \in End : /\ enc[e] = dec[Peer(e)]
                    /\ enc[e] \in {NewCS(1), NewCS(2)}
                    /\ enc[e] # enc[Peer(e)]

\* both ends done after a pattern whose last message the responder sends
C2_Witness ==
  /\ IsConn /\ BothDone /\ cfg.n = 2
  /\ enc["A"] = NewCS(2) /\ dec["B"] = NewCS(2)
  /\ enc["B"] = NewCS(1) /\ dec["A"] = NewCS(1)

\* ---- C3 -------------------------------------------------------------------
\* C3: whatever the role, the pattern length and the staged size, no staged
\* byte is left in outbuf when Handshake drops it, the handshake messages of an
\* end whose Handshake returned nil carry all its staged bytes in order, and the
\* peer's Reader starts with exactly these bytes.
C3_StagedBytesDelivered ==
  \A e \in End :
     IsConn =>
       /\ pc[e] = "install" => outbuf[e] = <<>>
       /\ pc[e] = "done" => PlainOf(HsFrames(e)) = Seg(1, PreLen(e))
       /\ BothDone =>
            BufTake(BufWrite(got[Peer(e)], rbuf[Peer(e)]), PreLen(e)) = Seg(1, PreLen(e))

\* ---- C4 -------------------------------------------------------------------
\* C4: after Handshake has returned nil, what the Reads of an end have
\* returned, followed by what its Reader still buffers, is the plaintext of
\* the frames the end has processed, in the order of the frames: the payloads
\* of the handshake messages first, then the stream frames.
C4_StagingThenStream ==
  \A e \in End :
     (IsConn /\ cr[e] = "reader") =>
        BufWrite(got[e], rbuf[e]) = PlainOf(Consumed(e))

\* a three-message handshake brought HugeLen staged bytes in two messages, and
\* the Reads have returned them and then the bytes of a stream frame
C4_Witness ==
  \E e \in End :
     /\ IsConn /\ cr[e] = "reader" /\ cfg.n = 3
     /\ Len(SelectSeq(HsFrames(Peer(e)), LAMBDA f : f.pt # <<>>)) = 2
     /\ rbuf[e] = <<>>
     /\ got[e] = Seg(1, HugeLen + SmallLen)

\* ---- C5 -------------------------------------------------------------------
\* the bytes the Reads of e have returned after the handshake payloads
Returned(e) == BufDrop(got[e], BufLen(PlainOf(HsFrames(Peer(e)))))
\* nothing of what Peer(e) has written is still on its way to the Reads of e
Drained(e) ==
  /\ rbuf[e] = <<>> /\ Held(e) = {} /\ rpos[e] = Len(wire[Peer(e)])
  /\ InWrite(Peer(e)) = {}

\* C5: over a sound transport the bytes the Reads of an end have returned are
\* a prefix of b1 ++ ... ++ bk, the byte strings of the peer's Write calls, and
\* are all of it once nothing is on its way; each Write returns len(b) and nil.
C5_RoundTrip ==
  \A e \in End :
     IsConn =>
       /\ cr[e] = "reader" =>
            /\ IsPrefix(Returned(e), Concat(calls[Peer(e)]))
            /\ Drained(e) => Returned(e) = Concat(calls[Peer(e)])
       /\ \A t \in Thread :
            wt[e][t].pc = "ret" => (wt[e][t].n = wt[e][t].len /\ wt[e][t].err = "nil")

\* two Writes of SmallLen bytes each have returned, and two Reads have
\* returned all their bytes
C5_Witness ==
  \E e \in End :
     /\ IsConn /\ cr[e] = "reader" /\ Drained(e)
     /\ Len(calls[Peer(e)]) = 2
     /\ BufLen(Returned(e)) = 2 * SmallLen
     /\ \A t \in Thread : wt[Peer(e)][t].pc = "idle"

\* ---- C6 -------------------------------------------------------------------
\* what call number k of end e passed to be sent
PayloadOf(e, k) ==
  IF IsConn THEN calls[e][k]
  ELSE Encode(cfg.binding, e, calls[e][k].hdr, calls[e][k].body)

\* the writes of end e: each call has put one frame on the wire, or is about
\* to, holding the ciphertext of what that call was given; the frame number k
\* on the wire was encrypted under nonce k - 1; and the peer decrypts every
\* frame it receives
WritesIntact(e) ==
  LET d == DataFrames(e) IN
    /\ \A k \in 1..Len(d) :
         /\ d[k].n = k - 1
         /\ d[k].key = enc[e].key
         /\ d[k].call \in 1..Len(calls[e])
         /\ d[k].pt = PayloadOf(e, d[k].call)
    /\ \A j, k \in 1..Len(d) : j # k => d[j].call # d[k].call
    /\ Len(d) + Cardinality(InWrite(e)) = Len(calls[e])
    /\ \A t \in Thread :
         rt[Peer(e)][t].pc = "dec" => DecryptOk(dec[Peer(e)], rt[Peer(e)][t].frame)

\* the Writer.Write calls of a Connection stay intact and nonce-ordered
ConnWritesIntact == IsConn => \A e \in End : WritesIntact(e)

\* C6: each Write / WriteRequest / WriteResponse call puts one frame on the
\* wire, holding the ciphertext of what that call was given; the frame number
\* k on the wire was encrypted under nonce k - 1; and a peer that reads one
\* call at a time decrypts every frame it receives.
C6_WritesIntactInNonceOrder == \A e \in End : WritesIntact(e)

\* ---- C7 -------------------------------------------------------------------
\* C7 as claimed: in the Reader, the Writer and both codecs, no two calls of
\* one direction on one object are inside their receive/decrypt or
\* encrypt/send steps at once.
C7_NoInterleaving ==
  \A e \in End : Cardinality(InWrite(e)) <= 1 /\ Cardinality(InRead(e)) <= 1

\* C7, amended: Writer.Write, WriteRequest and WriteResponse hold the write
\* lock, and Reader.Read holds the read lock, from before the cipher state is
\* used until the frame is sent (received and decrypted), so no two such calls
\* on one object interleave; the codecs' header reads take no lock.
C7_LockedDirections ==
  \A e \in End :
     /\ \A t \in InWrite(e) : wlck[e] = t
     /\ Cardinality(InWrite(e)) <= 1
     /\ IsConn => /\ \A t \in InRead(e) : rlck[e] = t
                  /\ Cardinality(InRead(e)) <= 1

\* a Read of thread "t2" holds the lock while the Read of "t1" it was called
\* during has not returned yet
C7_Witness ==
  \E e \in End :
     /\ IsConn /\ conc = RObj(e)
     /\ rlck[e] = "t2" /\ rt[e]["t2"].pc = "dec"
     /\ rt[e]["t1"].pc = "ret"

\* ---- C8 -------------------------------------------------------------------
\* the envelopes end e has put on the wire, in the order of their frames
Sent(e) ==
  LET d == DataFrames(e) IN [k \in 1..Len(d) |-> calls[e][d[k].call]]

\* between codecs that ran their handshakes against each other, each one's
\* enc is the other's dec
CodecCipherPairing ==
  IsRpc /\ BothDone => \A e \in End : /\ enc[e].key = dec[Peer(e)].key
                                      /\ enc[e].key \in {1, 2}
                                      /\ enc[e].key # dec[e].key

\* C8: between a client codec and a server codec that ran their handshakes
\* against each other, each one's enc is the other's dec; every write call
\* sends its envelope and every read call comes back to its caller, and an end
\* gets the envelopes its peer has sent, header and body as passed to
\* WriteRequest / WriteResponse, in the order sent, and no error.
C8_CodecEndToEnd ==
  IsRpc =>
    /\ CodecCipherPairing
    /\ \A e \in End :
         /\ Len(got[e]) <= Len(Sent(Peer(e)))
         /\ got[e] = SubSeq(Sent(Peer(e)), 1, Len(got[e]))
         /\ Len(Sent(e)) + Cardinality(InWrite(e)) = Len(calls[e])
         /\ \A t \in Thread :
              /\ wt[e][t].pc # "panic" /\ rt[e][t].pc # "panic"
              /\ rt[e][t].pc = "ret" => rt[e][t].err = "nil"

\* ---- C9 -------------------------------------------------------------------
\* a frame send or a frame receive fails in this step
TransportFails == faults' # faults /\ wire' = wire
\* hs.ReadMessage fails at end e in this step
EngineFails(e) ==
  /\ pc[e] = "loop" /\ ~state[e] /\ rpos'[e] # rpos[e]
  /\ ~ReadMessageOk(hs[e], NextFrame(e))

\* C9: a failing send, receive or ReadMessage makes the handshake of the end
\* it happens at return that error in the same step; the end sends and
\* receives no frame afterwards, its result stays, and its Reader and Writer
\* stay the staging buffers.
C9_AbortOnError ==
  [][/\ TransportFails =>
          \E e \in End : /\ pc[e] = "loop" /\ pc'[e] = "failed"
                         /\ err'[e] = IF state[e] THEN "send" ELSE "recv"
     /\ \A e \in End :
          /\ EngineFails(e) => (pc'[e] = "failed" /\ err'[e] = "engine")
          /\ pc'[e] = "failed" =>
               /\ err'[e] \in {"send", "recv", "engine"}
               /\ Len(wire'[e]) = Len(wire[e])
               /\ cw'[e] = "outbuf" /\ cr'[e] = "inbuf"
          /\ pc[e] = "failed" =>
               /\ pc'[e] = "failed" /\ err'[e] = err[e]
               /\ rpos'[e] = rpos[e]
    ]_vars

\* a handshake that has sent a message fails on the altered answer
C9_Witness ==
  \E e \in End :
     /\ pc[e] = "failed" /\ err[e] = "engine"
     /\ hs[e].idx >= 1 /\ Len(wire[e]) >= 1

\* ---- C10 ------------------------------------------------------------------
\* C10: after Handshake has failed, no Write on the Connection succeeds in
\* appending to the staging buffer and no Read returns bytes from it.
C10_UnusableAfterFailure ==
  \A e \in End :
     (IsConn /\ pc[e] = "failed") =>
        /\ staged[e].lw # "ok"
        /\ ~(staged[e].lr = "nil" /\ staged[e].lrn > 0)

\* ---- C11: an altered frame of the stream ----------------------------------
\* two byte strings have a byte in common
Overlaps(a, b) ==
  \E i \in 1..Len(a), j \in 1..Len(b) : a[i].lo <= b[j].hi /\ b[j].lo <= a[i].hi

\* the frames of the stream that reached end e altered
AlteredFrames(e) ==
  {k \in 1..Len(wire[Peer(e)]) : IsData(wire[Peer(e)][k]) /\ wire[Peer(e)][k].bad}

\* no Read has returned, and the carry-over does not hold, a byte of an
\* altered frame; a Read that reports the decryption error returned no byte
NothingFromAltered ==
  \A e \in End :
    /\ \A k \in AlteredFrames(e) :
         /\ ~Overlaps(wire[Peer(e)][k].pt, got[e])
         /\ ~Overlaps(wire[Peer(e)][k].pt, rbuf[e])
    /\ \A t \in Thread :
         rt[e][t].pc = "ret" /\ rt[e][t].err = "decrypt" => rt[e][t].n = 0

\* the Read that holds an altered frame ends with the decryption error and
\* leaves the carry-over and the delivered data alone
AlteredFrameFails ==
  \A e \in End, t \in Thread :
    rt[e][t].pc = "dec" /\ rt[e][t].frame.bad /\ rt'[e][t] # rt[e][t]
      => /\ rt'[e][t].pc = "ret" /\ rt'[e][t].err = "decrypt" /\ rt'[e][t].n = 0
         /\ rbuf'[e] = rbuf[e] /\ got'[e] = got[e]

\* the part of C11 about Reader.Read of a Connection
ConnTamperedFrameRejected == []NothingFromAltered /\ [][AlteredFrameFails]_vars

\* a header read of a codec comes back to its caller with nil or an error
HeaderReadsReturn ==
  \A e \in End, t \in Thread :
    IsRpc => ~(rt[e][t].pc = "panic" /\ rt[e][t].err = "nil src")

\* C11: when a frame of the stream was altered in transit, the receiver's
\* Read, or the header read of its codec, fails with the decryption error; a
\* failing Read returns n = 0 and adds nothing to the carry-over, and no read
\* ever returns bytes of that frame.
C11_TamperedFrameRejected == NothingFromAltered /\ HeaderReadsReturn

\* ---- C12: Read and Write of one Connection --------------------------------
\* a Read of end e holds the Reader's lock and waits for a frame
ReadBlocked(e) ==
  \E t \in Thread : rt[e][t].pc = "recv" /\ rlck[e] = t /\ ~HasFrame(e)

\* a Write of end e holds the Writer's lock and has its frame to send
WriteInSend(e) == \E t \in Thread : wt[e][t].pc = "send" /\ wlck[e] = t

\* a blocked Read leaves every step of a Write possible, and a Write in its
\* send leaves every step of a Read possible
NotBlockedByOther ==
  \A e \in End : IsConn =>
    /\ ReadBlocked(e) =>
         /\ \A u \in Thread : wt[e][u].pc = "send" => ENABLED WriterWriteSend(e, u)
         /\ (/\ cw[e] = "writer" /\ wt[e]["t1"].pc = "idle" /\ CanWrite(e)
             /\ TotalWrites < MaxWrites /\ wlck[e] = NoThread)
              => ENABLED WriterWriteLock(e, "t1", SmallLen)
    /\ WriteInSend(e) =>
         /\ \A t \in Thread :
              /\ rt[e][t].pc = "dec" => ENABLED ReaderReadDecrypt(e, t, ShortLen)
              /\ rt[e][t].pc = "recv" /\ HasFrame(e) => ENABLED ReaderReadRecv(e, t)
         /\ (/\ cr[e] = "reader" /\ rt[e]["t1"].pc = "idle"
             /\ nreads < MaxReads /\ rlck[e] = NoThread)
              => ENABLED (ReaderReadBuffered(e, "t1", ShortLen) \/ ReaderReadLock(e, "t1"))

\* a step of a Write leaves the Reader's lock, cipher state and calls as they
\* are, and a step of a Read the Writer's
NothingShared ==
  \A e \in End : IsConn /\ cw[e] = "writer" =>
    /\ wt'[e] # wt[e] => rlck'[e] = rlck[e] /\ dec'[e] = dec[e] /\ rt'[e] = rt[e]
    /\ rt'[e] # rt[e] => wlck'[e] = wlck[e] /\ enc'[e] = enc[e] /\ wt'[e] = wt[e]

\* C12: a Read that holds the Reader's lock while blocked waiting for a frame
\* does not keep a concurrent Write of the same Connection from taking its
\* lock, encrypting, sending and returning, and a Write blocked in its send
\* does not keep a Read from completing: Reader and Writer share no lock and
\* no cipher state.
C12_ReadWriteIndependent == []NotBlockedByOther /\ [][NothingShared]_vars

\* a Read waits for a frame under the Reader's lock while a Write of the same
\* Connection, begun under the Writer's lock, has its frame to send
C12_Witness ==
  \E e \in End : IsConn /\ ReadBlocked(e) /\ WriteInSend(e)

\* ---- C13: whose turn it is -------------------------------------------------
\* message i of the pattern is end e's to send
Own(e, i) == (i % 2 = 1) = Initiator(e)

\* the number of the k-th message end e sends
OwnNumber(e, k) == IF Initiator(e) THEN 2 * k - 1 ELSE 2 * k

\* the handshake messages end e has received
Received(e) == hs[e].idx - Len(HsFrames(e))

\* in a handshake that has not failed: the k-th message an end has sent is
\* its k-th own message of the pattern, none lies beyond the last message,
\* sends and receives alternate from the initiator's first send on, and the
\* loop is left exactly at the last message
TurnsAlternate ==
  \A e \in End :
    /\ \A k \in 1..Len(HsFrames(e)) :
         /\ HsFrames(e)[k].idx = OwnNumber(e, k)
         /\ HsFrames(e)[k].idx <= cfg.n
    /\ pc[e] \in {"loop", "install", "done"} =>
         /\ Initiator(e) => Len(HsFrames(e)) - Received(e) = hs[e].idx % 2
         /\ ~Initiator(e) => Received(e) - Len(HsFrames(e)) = hs[e].idx % 2
         /\ hs[e].idx <= cfg.n
    /\ pc[e] = "loop" => state[e] = Own(e, hs[e].idx + 1) /\ hs[e].idx < cfg.n
    /\ pc[e] \in {"install", "done"} => hs[e].idx = cfg.n

\* after the round that left the cipher states, no handshake message is sent
\* or received
NothingAfterLastRound ==
  \A e \in End :
    pc[e] \in {"install", "done"} =>
      Len(HsFrames(e))' = Len(HsFrames(e)) /\ hs'[e] = hs[e]

\* C13: in every handshake loop the initiator sends message 1 before it
\* receives, the responder receives first, and each end then alternates
\* strictly between one send and one receive: the initiator sends exactly the
\* odd-numbered messages, the responder the even-numbered ones, and no frame is
\* sent or received after the round that yielded the cipher states.
C13_TurnAlternation == []TurnsAlternate /\ [][NothingAfterLastRound]_vars

\* both ends of a three-message pattern are through: the initiator has sent
\* messages 1 and 3 and received message 2
C13_Witness ==
  /\ cfg.n = 3 /\ \A e \in End : pc[e] = "done"
  /\ \E e \in End : Initiator(e) /\ Len(HsFrames(e)) = 2 /\ Received(e) = 1

\* ---- C14: the chunk of staged bytes per sending round ----------------------
\* the messages of the pattern end e sends: half of them, rounded up at the
\* initiator and down at the responder
SendingRounds(e) ==
  IF Initiator(e)
  THEN CHOOSE k \in 0..cfg.n : 2 * k >= cfg.n /\ 2 * (k - 1) < cfg.n
  ELSE CHOOSE k \in 0..cfg.n : 2 * k <= cfg.n /\ 2 * (k + 1) > cfg.n

\* the payload bytes of the first k handshake messages of end e
CarriedBy(e, k) == BufLen(PlainOf(SubSeq(HsFrames(e), 1, k)))

\* in a running or completed Handshake of an end that sends a message: the
\* chunk is the stated function of L and nm, nm chunks cover L, and each
\* message sent carries min(chunk, bytes still staged)
ChunkAsStated ==
  \A e \in End :
    IsConn /\ pc[e] \in {"loop", "install", "done"} /\ SendingRounds(e) >= 1 =>
      /\ PreLen(e) > Threshold =>
           l[e] = IF SendingRounds(e) * Threshold >= PreLen(e)
                  THEN Threshold
                  ELSE (PreLen(e) \div SendingRounds(e)) + 1
      /\ PreLen(e) <= Threshold => l[e] <= Threshold
      /\ SendingRounds(e) * l[e] >= PreLen(e)
      /\ \A k \in 1..Len(HsFrames(e)) :
           BufLen(HsFrames(e)[k].pt) = Min(l[e], PreLen(e) - CarriedBy(e, k - 1))

\* the chunk is computed once, before the loop
ChunkKept ==
  \A e \in End :
    IsConn /\ pc[e] \in {"loop", "install", "done"} => l'[e] = l[e]

\* C14: with L the staged length at the start of Handshake and nm >= 1 the
\* number of messages this end sends, the chunk is computed once; for
\* L > 4096 it is 4096 when nm*4096 >= L and floor(L/nm)+1 otherwise, for
\* L <= 4096 at most 4096 bytes go into a round; every sending round carries
\* min(chunk, bytes still staged) and nm*chunk >= L.
C14_ChunkSize == []ChunkAsStated /\ [][ChunkKept]_vars

\* the initiator of a three-message pattern has sent its two messages with
\* more than two thresholds' worth staged: a chunk of floor(L/2)+1, then the rest
C14_Witness ==
  \E e \in End :
    /\ IsConn /\ Initiator(e) /\ cfg.n = 3 /\ pc[e] = "done"
    /\ PreLen(e) > 2 * Threshold
    /\ Len(HsFrames(e)) = 2
    /\ BufLen(HsFrames(e)[1].pt) = (PreLen(e) \div 2) + 1
    /\ BufLen(HsFrames(e)[2].pt) = PreLen(e) - BufLen(HsFrames(e)[1].pt)

\* ---- C15: what is usable, and when -----------------------------------------
\* the Connection delegates to the encrypted pair only after Handshake has
\* returned nil, with both cipher states there and both staging buffers gone
ConnSwitchedWhenDone ==
  \A e \in End :
    IsConn =>
      /\ (cw[e] = "writer" \/ cr[e] = "reader") <=> pc[e] = "done"
      /\ pc[e] = "done" =>
           /\ cw[e] = "writer" /\ cr[e] = "reader" /\ err[e] = "nil"
           /\ enc[e] # NoCS /\ dec[e] # NoCS
           /\ outbuf[e] = NilBuf /\ inbuf[e] = NilBuf

\* C15: the Connection's Reader and Writer delegate to the encrypted pair only
\* once Handshake has returned nil, with both cipher states non-nil and both
\* staging buffers dropped; and a codec constructor hands the caller a codec
\* only when its handshake completed with both cipher states set, never a
\* codec whose enc or dec is unset, so that no write runs on an unset enc.
C15_UsableOnlyAfterHandshake ==
  /\ ConnSwitchedWhenDone
  /\ \A e \in End :
       /\ CodecHanded(e) => pc[e] = "done" /\ enc[e] # NoCS /\ dec[e] # NoCS
       /\ staged[e].lw # "panic"

\* ---- C16: what the Reader carries over --------------------------------------
\* the frames received by end e of which r.buf holds a byte
FramesIn(e) ==
  {k \in 1..Len(wire[Peer(e)]) : Overlaps(wire[Peer(e)][k].pt, rbuf[e])}
HsFramesIn(e) == {k \in FramesIn(e) : IsHs(wire[Peer(e)][k])}
DataFramesIn(e) == {k \in FramesIn(e) : IsData(wire[Peer(e)][k])}

\* a Read receives only with r.buf empty, one frame at a time; a Read that
\* finds bytes in r.buf serves min(len(p), buffered) of them and leaves the
\* transport and the cipher state alone
ReadDiscipline ==
  \A e \in End :
    IsConn /\ cr[e] = "reader" =>
      /\ rpos'[e] # rpos[e] => rbuf[e] = <<>> /\ rpos'[e] = rpos[e] + 1
      /\ \A t \in Thread :
           rt[e][t].pc = "idle" /\ rt'[e][t].pc = "ret" =>
             /\ rbuf[e] # <<>>
             /\ rpos'[e] = rpos[e] /\ dec'[e] = dec[e]
             /\ rt'[e][t].n = Min(rt'[e][t].len, BufLen(rbuf[e]))
             /\ BufLen(rbuf'[e]) = BufLen(rbuf[e]) - rt'[e][t].n

\* r.buf holds bytes of at most one frame of the stream, and none while it
\* still holds payload bytes of the handshake
CarryOverBounded ==
  \A e \in End :
    IsConn /\ cr[e] = "reader" =>
      /\ Cardinality(DataFramesIn(e)) <= 1
      /\ HsFramesIn(e) # {} => DataFramesIn(e) = {}

\* C16 as stated: in every state after the handshake the Reader's carry-over
\* buffer holds unread plaintext of at most one frame.
C16_CarryOverOneFrame ==
  \A e \in End : IsConn /\ cr[e] = "reader" => Cardinality(FramesIn(e)) <= 1

\* C16, amended: after the handshake the carry-over buffer holds either what
\* is unread of the payloads of the handshake messages received, which can be
\* those of several messages, or unread plaintext of at most one frame of the
\* stream; Read receives a frame only when the buffer is empty, at most one
\* per call, and otherwise serves min(len(p), buffered) bytes without
\* touching the transport or the cipher state.
C16_CarryOverBounded == []CarryOverBounded /\ [][ReadDiscipline]_vars

\* a Reader starts with the payloads of two handshake messages, and a Read has
\* served part of them
C16_Witness ==
  \E e \in End, t \in Thread :
    /\ IsConn /\ cr[e] = "reader"
    /\ Cardinality(HsFramesIn(e)) = 2
    /\ rt[e][t].pc = "ret" /\ rt[e][t].n > 0 /\ rbuf[e] # <<>>

\* ---- C17: header read, then body read ---------------------------------------
\* C17: on a codec with a single reader, a header read returns a header or
\* an error, and what a body read delivers is the body of the envelope whose
\* header the header read before it returned: every delivered pair of header
\* and body is the header and the body of one envelope the peer has sent; a
\* body read issued after a header read that failed delivers nothing of an
\* earlier envelope.
C17_TwoPhaseRead ==
  \A e \in End :
    IsRpc =>
      /\ \A j \in 1..Len(got[e]) :
           \E k \in 1..Len(Sent(Peer(e))) : got[e][j] = Sent(Peer(e))[k]
      /\ rt[e]["t1"].pc = "panic" => rt[e]["t1"].err \notin {"nil src", "nil decode2"}

\* ---- C18: the errors of Reader.Read -----------------------------------------
\* C18: Reader.Read reports an error only for a transport receive failure or
\* a decryption failure; whenever its frame decrypts, the frame of a Write of
\* zero bytes included, or the carry-over buffer is not empty, Read returns a
\* nil error and serves up to len(p) bytes.
C18_ReadErrorsOnlyOnFailure ==
  \A e \in End, t \in Thread :
    IsConn /\ rt[e][t].pc = "ret" =>
      /\ rt[e][t].err \in {"nil", "recv", "decrypt"}
      /\ rt[e][t].n <= rt[e][t].len

\* ---- C19: the chunk computation ---------------------------------------------
\* C19: for every role, pattern length and staged length, the end that sends
\* no handshake message and has more than 4096 bytes staged included, the
\* chunk computation yields a chunk without dividing by zero, and Handshake
\* goes on to the message loop.
C19_ChunkWellDefined ==
  \A e \in End :
    /\ pc[e] # "panic"
    /\ IsConn /\ pc[e] = "idle" =>
         ~ChunkPanics(BufLen(outbuf[e]), cfg.n, Initiator(e))

====
